---- MODULE Spec2Model ----
(***************************************************************************)
(* Model of the compact code codec of the PFA application: CRC-8,          *)
(* base64url, the bit packer, the D-code codec (dcode.js) and the S-code   *)
(* codec (scode.js).  Every codec function is a pure function of its       *)
(* input; the state machine below is a caller that encodes a record or     *)
(* receives a text, decodes it, and (for the CRC checks) damages the       *)
(* bytes under the checksum.                                               *)
(*                                                                         *)
(* Representation.  A byte array is a sequence over 0..255.  A text is a   *)
(* record [pre, body]: pre is its first three characters, body the         *)
(* sequence of the following characters, each a character number (see      *)
(* ChPlus..ChBang).  A JavaScript Date is a count of ticks from            *)
(* 1970-01-01T00:00Z, TicksPerDay ticks to the day (the code counts        *)
(* milliseconds, 86400000 to the day).  An optional value is a sequence    *)
(* of length 0 (null/undefined) or 1.  A height or waist is held in        *)
(* tenths of an inch: heightInches is heightTenths / 10, so that           *)
(* Math.round(heightInches * 10) is heightTenths, and the value the        *)
(* decoder returns, unpack(11) / 10, is the unpacked number of tenths.     *)
(***************************************************************************)
EXTENDS Integers, Sequences, FiniteSets, TLC

(***************************************************************************)
(* Bounds of the model.                                                    *)
(***************************************************************************)
\* Ticks of the model's clock per day: a Date carries a time of day.
TicksPerDay == 2
\* Longest hand-built payload (data bytes before the CRC byte).
MaxCraftLen == 4
\* Most pack calls on one BitPacker.
MaxPacks == 2
\* Most unpack calls after the packed values were read back.
MaxExtraReads == 1

(***************************************************************************)
(* JavaScript integer operators on the values the codec meets.             *)
(***************************************************************************)
Pow2(n) == 2 ^ n

\* v >> i for an int32 v and i in 0..31 (arithmetic shift: floor division;
\* v >> 31 is the sign).
Shr(v, i) == IF i >= 31 THEN (IF v < 0 THEN -1 ELSE 0) ELSE v \div Pow2(i)

\* (v << 1) | bit for an int32 v: bit 30 of v becomes the sign of the result.
ShlOr(v, bit) ==
    LET low == 2 * (v % Pow2(30)) + bit
    IN  IF (v \div Pow2(30)) % 2 = 1 THEN (low - Pow2(30)) - Pow2(30) ELSE low

\* (v >> i) & 1
BitAt(v, i) == Shr(v, i) % 2

RECURSIVE BitXor(_, _)
BitXor(a, b) ==
    IF a = 0 THEN b
    ELSE IF b = 0 THEN a
    ELSE (((a % 2) + (b % 2)) % 2) + 2 * BitXor(a \div 2, b \div 2)

RECURSIVE BitOr(_, _)
BitOr(a, b) ==
    IF a = 0 THEN b
    ELSE IF b = 0 THEN a
    ELSE (IF a % 2 = 1 \/ b % 2 = 1 THEN 1 ELSE 0) + 2 * BitOr(a \div 2, b \div 2)

\* v & (2^k - 1)
LowBits(v, k) == v % Pow2(k)

(***************************************************************************)
(* crc8.js                                                                 *)
(***************************************************************************)
CRC8_POLY == 7

\* Crc8Shift with the polynomial left out.
Crc8ShiftNoPoly(crc) == crc * 2

\* One pass of the inner loop: crc is not masked until the loop is over.
Crc8Shift(crc) ==
    IF BitAt(crc, 7) = 1 THEN BitXor(crc * 2, CRC8_POLY) ELSE crc * 2

RECURSIVE Crc8Shifts(_, _)
Crc8Shifts(crc, j) == IF j = 0 THEN crc ELSE Crc8Shifts(Crc8Shift(crc), j - 1)

\* The eight passes of the inner loop and the final crc &= 0xff, for each value
\* of crc ^ data[i].
Crc8Byte == [x \in 0..255 |-> LowBits(Crc8Shifts(x, 8), 8)]

\* crc after the first n bytes of data.
RECURSIVE Crc8Upto(_, _)
Crc8Upto(data, n) ==
    IF n = 0 THEN 0 ELSE Crc8Byte[BitXor(Crc8Upto(data, n - 1), data[n])]

crc8(data) == Crc8Upto(data, Len(data))

verifyCrc8(data) ==
    IF Len(data) < 2 THEN FALSE
    ELSE data[Len(data)] = crc8(SubSeq(data, 1, Len(data) - 1))

(***************************************************************************)
(* base64url.js.  Character numbers: 0..61 are A-Z a-z 0-9 in the order of *)
(* the base64 alphabet, then the characters below.                         *)
(***************************************************************************)
ChPlus == 62
ChSlash == 63
ChPad == 64
ChMinus == 65
ChUnder == 66
ChBang == 67

\* The bits of a byte array, most significant bit of each byte first.
BytesToBits(bytes) ==
    [k \in 1..(8 * Len(bytes)) |-> BitAt(bytes[((k - 1) \div 8) + 1], 7 - ((k - 1) % 8))]

\* The unsigned number spelled by bits[from..from+n-1], a missing bit read as 0.
RECURSIVE BitsValue(_, _, _)
BitsValue(bits, from, n) ==
    IF n = 0 THEN 0
    ELSE 2 * BitsValue(bits, from, n - 1)
         + (IF from + n - 1 <= Len(bits) THEN bits[from + n - 1] ELSE 0)

\* btoa: groups of three bytes become four characters, '=' fills the last group.
btoa(bytes) ==
    LET bits == BytesToBits(bytes)
        nch == (Len(bits) + 5) \div 6
        full == 4 * ((Len(bytes) + 2) \div 3)
    IN  [k \in 1..full |-> IF k <= nch THEN BitsValue(bits, 6 * (k - 1) + 1, 6) ELSE ChPad]

\* String.replace(/c/g, d) for single characters.
ReplaceChar(str, c, d) == [k \in 1..Len(str) |-> IF str[k] = c THEN d ELSE str[k]]

\* String.replace(/c/g, '')
RemoveChar(str, c) == SelectSeq(str, LAMBDA x : x # c)

\* encodeBase64url with the '=' padding left in.
encodeBase64urlPadded(data) ==
    ReplaceChar(ReplaceChar(btoa(data), ChPlus, ChMinus), ChSlash, ChUnder)

encodeBase64url(data) ==
    RemoveChar(ReplaceChar(ReplaceChar(btoa(data), ChPlus, ChMinus), ChSlash, ChUnder), ChPad)

\* while (base64.length % 4) base64 += '='
PadToFour(str) == str \o [k \in 1..((4 - (Len(str) % 4)) % 4) |-> ChPad]

\* atob (forgiving-base64 decode): [ok, bytes]; ok = FALSE is the thrown error.
atob(str) ==
    LET n == Len(str)
        cut == IF n % 4 = 0 /\ n >= 2 /\ str[n] = ChPad /\ str[n - 1] = ChPad THEN 2
               ELSE IF n % 4 = 0 /\ n >= 1 /\ str[n] = ChPad THEN 1
               ELSE 0
        data == SubSeq(str, 1, n - cut)
        m == Len(data)
        bad == m % 4 = 1 \/ \E k \in 1..m : data[k] > ChSlash
        bits == [k \in 1..(6 * m) |-> BitAt(data[((k - 1) \div 6) + 1], 5 - ((k - 1) % 6))]
    IN  IF bad THEN [ok |-> FALSE, bytes |-> <<>>]
        ELSE [ok |-> TRUE,
              bytes |-> [k \in 1..((6 * m) \div 8) |-> BitsValue(bits, 8 * (k - 1) + 1, 8)]]

decodeBase64url(str) ==
    atob(PadToFour(ReplaceChar(ReplaceChar(str, ChMinus, ChPlus), ChUnder, ChSlash)))

(***************************************************************************)
(* JavaScript values the codecs meet.                                      *)
(***************************************************************************)
\* A date argument: absent (null/undefined), a Date or string that is no valid
\* date (getTime() is NaN), or a valid instant t.
NoDate == [kind |-> "absent", t |-> 0]
BadDate == [kind |-> "invalid", t |-> 0]
DateAt(t) == [kind |-> "date", t |-> t]

\* A number: NaN or an integer.
NaN == [nan |-> TRUE, n |-> 0]
Num(n) == [nan |-> FALSE, n |-> n]

\* a < b and a > b: every comparison with NaN is false.
JsLess(a, b) == ~a.nan /\ ~b.nan /\ a.n < b.n
JsGreater(a, b) == ~a.nan /\ ~b.nan /\ a.n > b.n

\* ToInt32, the conversion every bit operator applies first: NaN becomes 0.
ToInt32(a) == IF a.nan THEN 0 ELSE a.n

(***************************************************************************)
(* bitPacker.js                                                            *)
(***************************************************************************)
\* BitPacker.pack: appends bits bitCount-1 .. 0 of value.
pack(bits, value, bitCount) ==
    bits \o [k \in 1..bitCount |-> BitAt(value, bitCount - k)]

\* BitPacker.getBytes: pads with 0 to a byte boundary.
getBytes(bits) ==
    LET padded == bits \o [k \in 1..((8 - (Len(bits) % 8)) % 8) |-> 0]
    IN  [i \in 1..(Len(padded) \div 8) |-> BitsValue(padded, 8 * (i - 1) + 1, 8)]

\* this.bits after getBytes: the padding is pushed onto the packer's own bits.
PaddedBits(bits) == BytesToBits(getBytes(bits))

\* new BitUnpacker(bytes)
BitUnpacker(bytes) == [bits |-> BytesToBits(bytes), position |-> 0]

\* The loop of BitUnpacker.unpack over bits[from..from+n-1] with a missing bit
\* read as 1.
RECURSIVE UnpackValueOnesPastEnd(_, _, _)
UnpackValueOnesPastEnd(bits, from, n) ==
    IF n = 0 THEN 0
    ELSE ShlOr(UnpackValueOnesPastEnd(bits, from, n - 1),
               IF from + n - 1 <= Len(bits) THEN bits[from + n - 1] ELSE 1)

\* The loop of BitUnpacker.unpack over bits[from..from+n-1]: value is an int32
\* after every (value << 1) | bit, and a missing bit reads as undefined || 0.
RECURSIVE UnpackValue(_, _, _)
UnpackValue(bits, from, n) ==
    IF n = 0 THEN 0
    ELSE ShlOr(UnpackValue(bits, from, n - 1),
               IF from + n - 1 <= Len(bits) THEN bits[from + n - 1] ELSE 0)

\* BitUnpacker.unpack: the value read and the unpacker after the read; a bit
\* beyond the end of the buffer reads as undefined || 0.
unpack(u, bitCount) ==
    [value |-> UnpackValue(u.bits, u.position + 1, bitCount),
     next |-> [bits |-> u.bits, position |-> u.position + bitCount]]

Lookup(table, key, default) == IF key \in DOMAIN table THEN table[key] ELSE default

CARDIO_EXERCISES == [x \in {"2mile_run", "hamr", "2km_walk"} |->
    CASE x = "2mile_run" -> 0 [] x = "hamr" -> 1 [] x = "2km_walk" -> 2]
STRENGTH_EXERCISES == [x \in {"pushups", "hrpu"} |->
    CASE x = "pushups" -> 0 [] x = "hrpu" -> 1]
CORE_EXERCISES == [x \in {"situps", "clrc", "plank"} |->
    CASE x = "situps" -> 0 [] x = "clrc" -> 1 [] x = "plank" -> 2]

\* Object.fromEntries(Object.entries(t).map(([k, v]) => [v, k]))
Reverse(table) ==
    [v \in {table[k] : k \in DOMAIN table} |-> CHOOSE k \in DOMAIN table : table[k] = v]
CARDIO_EXERCISES_REV == Reverse(CARDIO_EXERCISES)
STRENGTH_EXERCISES_REV == Reverse(STRENGTH_EXERCISES)
CORE_EXERCISES_REV == Reverse(CORE_EXERCISES)

(***************************************************************************)
(* dcode.js                                                                *)
(***************************************************************************)
D_SCHEMA_VERSION == 1
\* new Date('1950-01-01'), in days from 1970-01-01.
EpochDay == -7305
D_EPOCH_DATE == EpochDay * TicksPerDay
D_PREFIX == "D1-"
\* GENDER.MALE and GENDER.FEMALE of scoring/constants.js.
GENDER_MALE == "M"
GENDER_FEMALE == "F"

\* A thrown Error, by the check that throws it.
Thrown(e) == [ok |-> FALSE, err |-> e]

\* startsWith that lets the legacy prefix through as well.
startsWithLegacy(code, prefix) == code.pre = prefix \/ code.pre = "S1-"

\* !code || !code.startsWith(PREFIX) is false: text = [pre, body] holds its
\* first three characters and the rest (the empty text has pre = "").
startsWith(code, prefix) == code.pre = prefix

\* A value that is not a text (null, undefined, a number, an object): its
\* typeof and whether !value is false.
NonText(type, truthy) == [pre |-> "", body |-> <<>>, js |-> type, truthy |-> truthy]

IsText(value) == "js" \notin DOMAIN value

\* !code is false and code.startsWith is not a function: the call throws a
\* TypeError.
StartsWithMissing(code) == ~IsText(code) /\ code.truthy

dateToDaysSinceEpoch(date) ==
    IF date.kind = "date" THEN Num((date.t - D_EPOCH_DATE) \div TicksPerDay) ELSE NaN

D_daysToDate(days) == DateAt(D_EPOCH_DATE + days * TicksPerDay)

\* DCodeBytes with the middle byte shifted by 6 instead of 5.
DCodeBytesShift(dobDays, genderBit) ==
    LET d == ToInt32(dobDays)
        bytes == << LowBits(BitOr(BitOr(D_SCHEMA_VERSION * 16, genderBit * 8),
                                  LowBits(Shr(d, 13), 3)), 8),
                    LowBits(Shr(d, 6), 8),
                    LowBits(d * 8, 8) >>
    IN  Append(bytes, crc8(bytes))

\* The Uint8Array of encodeDCode, CRC byte included (dataWithCrc).
DCodeBytes(dobDays, genderBit) ==
    LET d == ToInt32(dobDays)
        bytes == << LowBits(BitOr(BitOr(D_SCHEMA_VERSION * 16, genderBit * 8),
                                  LowBits(Shr(d, 13), 3)), 8),
                    LowBits(Shr(d, 5), 8),
                    LowBits(d * 8, 8) >>
    IN  Append(bytes, crc8(bytes))

\* demographics = [dob, gender]; gender is <<>> when absent.
encodeDCode(demographics) ==
    LET dob == demographics.dob
        gender == demographics.gender
        genderBit == IF gender = <<GENDER_FEMALE>> THEN 1 ELSE 0
        dobDays == dateToDaysSinceEpoch(dob)
    IN  IF dob.kind = "absent" \/ gender = <<>> THEN Thrown("missing")
        ELSE IF JsLess(dobDays, Num(0)) \/ JsGreater(dobDays, Num(65535)) THEN Thrown("range")
        ELSE [ok |-> TRUE,
              wire |-> DCodeBytes(dobDays, genderBit),
              text |-> [pre |-> D_PREFIX,
                        body |-> encodeBase64url(DCodeBytes(dobDays, genderBit))]]

\* DCodeUnpack without the schema version check.
DCodeUnpackNoVersion(bytes) ==
    LET data == SubSeq(bytes, 1, Len(bytes) - 1)
        schemaVersion == LowBits(Shr(data[1], 4), 4)
        genderBit == LowBits(Shr(data[1], 3), 1)
        dobDays == BitOr(BitOr(LowBits(data[1], 3) * 8192, data[2] * 32), Shr(data[3], 3))
    IN  IF Len(data) # 3 THEN Thrown("length")
        ELSE [ok |-> TRUE,
              dob |-> D_daysToDate(dobDays),
              gender |-> IF genderBit = 1 THEN GENDER_FEMALE ELSE GENDER_MALE,
              schemaVersion |-> schemaVersion]

\* DCodeUnpack with the schema version checked before the length.
DCodeUnpackVersionFirst(bytes) ==
    LET data == SubSeq(bytes, 1, Len(bytes) - 1)
        schemaVersion == LowBits(Shr(data[1], 4), 4)
        genderBit == LowBits(Shr(data[1], 3), 1)
        dobDays == BitOr(BitOr(LowBits(data[1], 3) * 8192, data[2] * 32), Shr(data[3], 3))
    IN  IF schemaVersion > D_SCHEMA_VERSION THEN Thrown("version")
        ELSE IF Len(data) # 3 THEN Thrown("length")
        ELSE [ok |-> TRUE,
              dob |-> D_daysToDate(dobDays),
              gender |-> IF genderBit = 1 THEN GENDER_FEMALE ELSE GENDER_MALE,
              schemaVersion |-> schemaVersion]

\* Lines 109-135 of decodeDCode, on the bytes that passed the CRC check.
DCodeUnpack(bytes) ==
    LET data == SubSeq(bytes, 1, Len(bytes) - 1)
        schemaVersion == LowBits(Shr(data[1], 4), 4)
        genderBit == LowBits(Shr(data[1], 3), 1)
        dobDays == BitOr(BitOr(LowBits(data[1], 3) * 8192, data[2] * 32), Shr(data[3], 3))
    IN  IF Len(data) # 3 THEN Thrown("length")
        ELSE IF schemaVersion > D_SCHEMA_VERSION THEN Thrown("version")
        ELSE [ok |-> TRUE,
              dob |-> D_daysToDate(dobDays),
              gender |-> IF genderBit = 1 THEN GENDER_FEMALE ELSE GENDER_MALE,
              schemaVersion |-> schemaVersion]

decodeDCode(dcode) ==
    LET dec == decodeBase64url(dcode.body)
    IN  IF StartsWithMissing(dcode) THEN Thrown("TypeError")
        ELSE IF ~startsWith(dcode, D_PREFIX) THEN Thrown("format")
        ELSE IF ~dec.ok THEN Thrown("base64")
        ELSE IF ~verifyCrc8(dec.bytes) THEN Thrown("crc")
        ELSE DCodeUnpack(dec.bytes)

\* A returned value.
Returned(value) == [ok |-> TRUE, value |-> value]

\* try { call; return a } catch { return b }: the bare catch takes whatever
\* the call threw, a TypeError included.
TryCatch(outcome, a, b) == IF outcome.ok THEN Returned(a) ELSE Returned(b)

isValidDCode(dcode) == TryCatch(decodeDCode(dcode), TRUE, FALSE)

(***************************************************************************)
(* scode.js                                                                *)
(***************************************************************************)
S_SCHEMA_VERSION == 2
CHART_VERSION == 0
S_EPOCH_DATE == EpochDay * TicksPerDay
S_PREFIX == "S2-"

\* isDiagnosticPeriod of scoring/constants.js, a calendar rule on the date:
\* the diagnostic window is taken to be 2025-09-01 .. 2026-02-28 (days 20332
\* to 20512 from 1970-01-01).
isDiagnosticPeriod(date) ==
    /\ date.kind = "date"
    /\ date.t \div TicksPerDay \in 20332..20512

dateToDays(date) ==
    IF date.kind = "date" THEN Num((date.t - S_EPOCH_DATE) \div TicksPerDay) ELSE NaN

S_daysToDate(days) == DateAt(S_EPOCH_DATE + days * TicksPerDay)

\* Width of the value field of cardio and of core, and of strength.
CardioValueBits == 12
StrengthValueBits == 7
CoreValueBits == 12
HeightBits == 11
WaistBits == 10
DateBits == 16

\* PackHeader with the presence bits packed before the diagnostic flag.
PackHeaderPresenceFirst(assessment) ==
    LET b1 == pack(<<>>, S_SCHEMA_VERSION, 4)
        b2 == pack(b1, CHART_VERSION, 4)
        b3 == pack(b2, ToInt32(dateToDays(assessment.date)), DateBits)
        b5 == pack(b3, IF assessment.cardio # <<>> THEN 1 ELSE 0, 1)
        b6 == pack(b5, IF assessment.strength # <<>> THEN 1 ELSE 0, 1)
        b7 == pack(b6, IF assessment.core # <<>> THEN 1 ELSE 0, 1)
        b8 == pack(b7, IF assessment.bodyComp # <<>> THEN 1 ELSE 0, 1)
    IN  pack(b8, IF isDiagnosticPeriod(assessment.date) THEN 1 ELSE 0, 1)

\* Lines 63-78: the header and the four presence bits.
PackHeader(assessment) ==
    LET b1 == pack(<<>>, S_SCHEMA_VERSION, 4)
        b2 == pack(b1, CHART_VERSION, 4)
        b3 == pack(b2, ToInt32(dateToDays(assessment.date)), DateBits)
        b4 == pack(b3, IF isDiagnosticPeriod(assessment.date) THEN 1 ELSE 0, 1)
        b5 == pack(b4, IF assessment.cardio # <<>> THEN 1 ELSE 0, 1)
        b6 == pack(b5, IF assessment.strength # <<>> THEN 1 ELSE 0, 1)
        b7 == pack(b6, IF assessment.core # <<>> THEN 1 ELSE 0, 1)
    IN  pack(b7, IF assessment.bodyComp # <<>> THEN 1 ELSE 0, 1)

\* PackComponent with the exempt bit packed after the value.
PackComponentExemptLast(bits, comp, table, exBits, valueBits) ==
    IF comp = <<>> THEN bits
    ELSE LET c == comp[1]
             b1 == pack(bits, Lookup(table, c.exercise, 0), exBits)
         IN  IF c.exempt THEN pack(b1, 1, 1)
             ELSE pack(pack(b1, c.value[1], valueBits), 0, 1)

\* Lines 80-108: one exercise component (comp is <<>> or <<[exercise, exempt, value]>>):
\* exercise code, exempt bit and, unless exempt, Math.round(value).
PackComponent(bits, comp, table, exBits, valueBits) ==
    IF comp = <<>> THEN bits
    ELSE LET c == comp[1]
             b1 == pack(bits, Lookup(table, c.exercise, 0), exBits)
             b2 == pack(b1, IF c.exempt THEN 1 ELSE 0, 1)
         IN  IF c.exempt THEN b2 ELSE pack(b2, c.value[1], valueBits)

\* Lines 110-119: body composition; heightTenths is Math.round(heightInches * 10).
PackBodyComp(bits, bodyComp) ==
    IF bodyComp = <<>> THEN bits
    ELSE LET c == bodyComp[1]
             b1 == pack(bits, IF c.exempt THEN 1 ELSE 0, 1)
         IN  IF c.exempt THEN b1
             ELSE pack(pack(b1, c.heightTenths[1], HeightBits), c.waistTenths[1], WaistBits)

\* packer.getBytes() of encodeSCode (the data bytes, no CRC).
SCodeData(assessment) ==
    LET h == PackHeader(assessment)
        c1 == PackComponent(h, assessment.cardio, CARDIO_EXERCISES, 3, CardioValueBits)
        c2 == PackComponent(c1, assessment.strength, STRENGTH_EXERCISES, 2, StrengthValueBits)
        c3 == PackComponent(c2, assessment.core, CORE_EXERCISES, 2, CoreValueBits)
    IN  getBytes(PackBodyComp(c3, assessment.bodyComp))

\* dataWithCrc of encodeSCode.
SCodeBytes(assessment) == Append(SCodeData(assessment), crc8(SCodeData(assessment)))

encodeSCode(assessment) ==
    IF assessment.date.kind = "absent" THEN Thrown("missing")
    ELSE LET wire == SCodeBytes(assessment)
         IN  [ok |-> TRUE, wire |-> wire,
              text |-> [pre |-> S_PREFIX, body |-> encodeBase64url(wire)]]

\* Lines 181-215: one exercise component of decodeSCode: the component read
\* (<<>> when its presence bit is 0) and the unpacker after it.
UnpackComponent(u, has, rev, default, exBits, valueBits) ==
    IF ~has THEN [comp |-> <<>>, next |-> u]
    ELSE LET ex == unpack(u, exBits)
             xm == unpack(ex.next, 1)
             exempt == xm.value = 1
             val == unpack(xm.next, valueBits)
         IN  [comp |-> << [exercise |-> Lookup(rev, ex.value, default),
                           value |-> IF exempt THEN <<>> ELSE <<val.value>>,
                           exempt |-> exempt] >>,
              next |-> IF exempt THEN xm.next ELSE val.next]

\* Lines 217-235; heightTenths is heightInches * 10.
UnpackBodyComp(u, has) ==
    IF ~has THEN <<>>
    ELSE LET xm == unpack(u, 1)
             h == unpack(xm.next, HeightBits)
             w == unpack(h.next, WaistBits)
         IN  IF xm.value = 1
             THEN << [heightTenths |-> <<>>, waistTenths |-> <<>>, exempt |-> TRUE] >>
             ELSE << [heightTenths |-> <<h.value>>, waistTenths |-> <<w.value>>,
                      exempt |-> FALSE] >>

decodeSCode(scode) ==
    LET dec == decodeBase64url(scode.body)
        bytes == dec.bytes
        dataBytes == SubSeq(bytes, 1, Len(bytes) - 1)
        sv == unpack(BitUnpacker(dataBytes), 4)
        cv == unpack(sv.next, 4)
        dd == unpack(cv.next, DateBits)
        dg == unpack(dd.next, 1)
        hc == unpack(dg.next, 1)
        hs == unpack(hc.next, 1)
        ho == unpack(hs.next, 1)
        hb == unpack(ho.next, 1)
        cardio == UnpackComponent(hb.next, hc.value = 1, CARDIO_EXERCISES_REV,
                                  "2mile_run", 3, CardioValueBits)
        strength == UnpackComponent(cardio.next, hs.value = 1, STRENGTH_EXERCISES_REV,
                                    "pushups", 2, StrengthValueBits)
        core == UnpackComponent(strength.next, ho.value = 1, CORE_EXERCISES_REV,
                                "situps", 2, CoreValueBits)
    IN  IF StartsWithMissing(scode) THEN Thrown("TypeError")
        ELSE IF ~startsWith(scode, S_PREFIX) THEN Thrown("format")
        ELSE IF ~dec.ok THEN Thrown("base64")
        ELSE IF ~verifyCrc8(bytes) THEN Thrown("crc")
        ELSE IF sv.value > S_SCHEMA_VERSION THEN Thrown("version")
        ELSE [ok |-> TRUE,
              date |-> S_daysToDate(dd.value),
              isDiagnostic |-> dg.value = 1,
              schemaVersion |-> sv.value,
              chartVersion |-> cv.value,
              cardio |-> cardio.comp,
              strength |-> strength.comp,
              core |-> core.comp,
              bodyComp |-> UnpackBodyComp(core.next, hb.value = 1)]

\* isValidSCode that checks the format of the text only: its prefix.
isValidSCodeByPrefix(scode) == Returned(IsText(scode) /\ startsWith(scode, S_PREFIX))

isValidSCode(scode) == TryCatch(decodeSCode(scode), TRUE, FALSE)

(***************************************************************************)
(* The records and texts a caller hands to the codecs.                     *)
(***************************************************************************)
\* The instants of the given days (counted from 1970-01-01).
DatesOf(days) == {DateAt(d * TicksPerDay + f) : d \in days, f \in 0..(TicksPerDay - 1)}
\* 2020-01-01, 2025-09-15 and 2109-09-18 (2020-01-01 plus 32767 days).
DateSamples == DatesOf({18262, 20346, 51029})
\* 1949-12-31, the day before the epoch.
EarlyDateSamples == DatesOf({-7306})

Component(exercises, values) ==
    {<<>>}
    \cup {<<[exercise |-> e, exempt |-> TRUE, value |-> <<>>]>> : e \in exercises}
    \cup {<<[exercise |-> e, exempt |-> FALSE, value |-> <<v>>]>> : e \in exercises, v \in values}

CardioSamples == Component(DOMAIN CARDIO_EXERCISES, {1111, 2047, 5000})
StrengthSamples == Component(DOMAIN STRENGTH_EXERCISES, {45, 127, 200})
CoreSamples == Component(DOMAIN CORE_EXERCISES, {48, 2047, 4096})
BodyCompSamples ==
    {<<>>, <<[exempt |-> TRUE, heightTenths |-> <<>>, waistTenths |-> <<>>]>>}
    \cup {<<[exempt |-> FALSE, heightTenths |-> <<hw[1]>>, waistTenths |-> <<hw[2]>>]>> :
            hw \in {<<720, 360>>, <<2047, 1023>>, <<2048, 360>>, <<720, 1024>>}}

\* Every combination of the samples under a date of the documented range; a
\* missing date, an invalid date and a date before the epoch with a cardio
\* result alone.
Assessments ==
    [date : DateSamples, cardio : CardioSamples, strength : StrengthSamples,
     core : CoreSamples, bodyComp : BodyCompSamples]
    \cup [date : {NoDate, BadDate} \cup EarlyDateSamples, cardio : CardioSamples,
          strength : {<<>>}, core : {<<>>}, bodyComp : {<<>>}]

\* The records whose codes are damaged bit by bit: each component absent,
\* exempt or with a value.
CrcAssessments ==
    {a \in Assessments :
        /\ a.date \in {DateAt(20346 * TicksPerDay), DateAt(51029 * TicksPerDay)}
        /\ a.cardio \in Component({"hamr"}, {2047})
        /\ a.strength \in Component({"hrpu"}, {45})
        /\ a.core \in Component({"plank"}, {48})
        /\ \/ a.bodyComp = <<>>
           \/ a.bodyComp[1].exempt
           \/ a.bodyComp[1].heightTenths = <<720>> /\ a.bodyComp[1].waistTenths = <<360>>}

\* Days of birth tried, counted from 1950-01-01.
DobDaySamples == {-1, 0, 1, 31, 32, 255, 8191, 8192, 12345, 40000, 65535, 65536}
Demographics ==
    [dob : {NoDate, BadDate}
           \cup {DateAt((EpochDay + d) * TicksPerDay + f) :
                   d \in DobDaySamples, f \in 0..(TicksPerDay - 1)},
     gender : {<<>>, <<GENDER_MALE>>, <<GENDER_FEMALE>>}]

\* (ver 7, low 11, fill 125, n 2 is the text "{}" of a legacy S1 payload.)
\* A hand-built text: prefix pre, n data bytes of which the first holds the
\* schema version ver in its high nibble and low in its low nibble and the
\* others are fill, then the CRC byte (wrong when crcOk is false), in
\* base64url; spoil "char" puts a character outside the alphabet first,
\* spoil "length" leaves a length no base64 text has.
Crafts ==
    [pre : {"S2-", "D1-", "S1-", "XX-"}, ver : {0, 1, 2, 3, 7, 15}, low : {0, 9, 11},
     n : 0..MaxCraftLen, fill : {0, 125, 255}, crcOk : BOOLEAN,
     spoil : {"none", "char", "length"}]

CraftData(c) == [k \in 1..c.n |-> IF k = 1 THEN c.ver * 16 + c.low ELSE c.fill]

CraftWire(c) ==
    Append(CraftData(c),
           IF c.crcOk THEN crc8(CraftData(c)) ELSE BitXor(crc8(CraftData(c)), 1))

RECURSIVE SpoilLength(_)
SpoilLength(str) == IF Len(str) % 4 = 1 THEN str ELSE SpoilLength(Append(str, 0))

CraftText(c) ==
    LET good == encodeBase64url(CraftWire(c))
    IN  [pre |-> c.pre,
         body |-> CASE c.spoil = "none" -> good
                    [] c.spoil = "char" -> <<ChBang>> \o Tail(good)
                    [] c.spoil = "length" -> SpoilLength(good)]

NoText == [pre |-> "", body |-> <<>>]
NoResult == [ok |-> FALSE, err |-> "none"]

\* The empty text, and values that are not texts: null, undefined, 0, 123, {}.
ValueSamples ==
    {NoText, NonText("null", FALSE), NonText("undefined", FALSE),
     NonText("number", FALSE), NonText("number", TRUE), NonText("object", TRUE)}

(***************************************************************************)
(* The state machine: a caller of the codecs.                              *)
(***************************************************************************)
VARIABLES
    phase,      \* "idle", "encoded", "crafted", "tampered", "decoded", "damaged", "truncated"
    kind,       \* what was made: "none", "S", "D", "craft"
    input,      \* the record given to the encoder / the recipe of the hand-built text
    enc,        \* what the encoder returned or threw
    text,       \* the text at hand
    wire,       \* the bytes under the checksum (data bytes, then the CRC byte)
    verified,   \* verifyCrc8(wire)
    flipped,    \* <<i>> once bit i of wire was flipped (0 is the first byte's MSB)
    decoder,    \* the decoder called: "none", "S", "D"
    res,        \* what the decoder returned or threw
    tampered,   \* <<c>> once the last character of text was replaced by c
    valid,      \* what isValidSCode / isValidDCode did on text
    bitStage,   \* "packing" until getBytes is called, then "reading"
    packed,     \* the pack calls made: [value, bitCount] each
    packerBits, \* the BitPacker's bits
    bytes,      \* what getBytes returned
    unpacker,   \* the BitUnpacker built on bytes
    reads       \* the unpack calls made: [value, bitCount] each

codecVars ==
    <<phase, kind, input, enc, text, wire, verified, flipped, decoder, res, tampered, valid>>

bitVars == <<bitStage, packed, packerBits, bytes, unpacker, reads>>

vars == <<codecVars, bitVars>>

Init ==
    /\ phase = "idle"
    /\ kind = "none"
    /\ input = <<>>
    /\ enc = NoResult
    /\ text = NoText
    /\ wire = <<>>
    /\ verified = FALSE
    /\ flipped = <<>>
    /\ decoder = "none"
    /\ res = NoResult
    /\ tampered = <<>>
    /\ valid = NoResult
    /\ bitStage = "packing"
    /\ packed = <<>>
    /\ packerBits = <<>>
    /\ bytes = <<>>
    /\ unpacker = BitUnpacker(<<>>)
    /\ reads = <<>>

Encoded(k, record, outcome) ==
    /\ phase' = "encoded"
    /\ kind' = k
    /\ input' = record
    /\ enc' = outcome
    /\ text' = IF enc'.ok THEN enc'.text ELSE NoText
    /\ wire' = IF enc'.ok THEN enc'.wire ELSE <<>>
    /\ verified' = verifyCrc8(wire')
    /\ UNCHANGED <<flipped, decoder, res, tampered, valid, bitVars>>

\* The caller encodes one of the given assessments.
EncodeS(records) ==
    /\ phase = "idle"
    /\ \E a \in records : Encoded("S", a, encodeSCode(a))

\* The caller encodes one of the given demographics.
EncodeD(records) ==
    /\ phase = "idle"
    /\ \E d \in records : Encoded("D", d, encodeDCode(d))

\* The caller is handed a hand-built text.
Craft ==
    /\ phase = "idle"
    /\ \E c \in Crafts :
          /\ phase' = "crafted"
          /\ kind' = "craft"
          /\ input' = c
          /\ wire' = CraftWire(c)
          /\ text' = CraftText(c)
          /\ verified' = verifyCrc8(wire')
          /\ UNCHANGED <<enc, flipped, decoder, res, tampered, valid, bitVars>>

\* The caller decodes a code it was given by the matching encoder, intact or
\* with its last character replaced, or any hand-built text.
DecodeS ==
    /\ \/ phase = "encoded" /\ kind = "S" /\ enc.ok
       \/ phase = "tampered" /\ kind = "S"
       \/ phase = "crafted"
    /\ phase' = "decoded"
    /\ decoder' = "S"
    /\ res' = decodeSCode(text)
    /\ UNCHANGED <<kind, input, enc, text, wire, verified, flipped, tampered, valid, bitVars>>

DecodeD ==
    /\ \/ phase = "encoded" /\ kind = "D" /\ enc.ok
       \/ phase = "tampered" /\ kind = "D"
       \/ phase = "crafted"
    /\ phase' = "decoded"
    /\ decoder' = "D"
    /\ res' = decodeDCode(text)
    /\ UNCHANGED <<kind, input, enc, text, wire, verified, flipped, tampered, valid, bitVars>>

Next ==
    \/ EncodeS(Assessments)
    \/ EncodeD(Demographics)
    \/ Craft
    \/ DecodeS
    \/ DecodeD

Spec == Init /\ [][Next]_vars

\* The D-code codec and every decoder on hand-built texts.
NextText ==
    \/ EncodeD(Demographics)
    \/ Craft
    \/ DecodeS
    \/ DecodeD

SpecText == Init /\ [][NextText]_vars

\* One bit of the bytes an encoder checksummed is flipped in transit, and the
\* receiver verifies the checksum.
FlipBit ==
    /\ phase = "encoded"
    /\ enc.ok
    /\ \E i \in 0..(8 * Len(wire) - 1) :
          /\ wire' = [wire EXCEPT ![(i \div 8) + 1] = BitXor(@, Pow2(7 - (i % 8)))]
          /\ flipped' = <<i>>
    /\ phase' = "damaged"
    /\ verified' = verifyCrc8(wire')
    /\ UNCHANGED <<kind, input, enc, text, decoder, res, tampered, valid, bitVars>>

\* All but the first n < 2 bytes are lost in transit, and the receiver
\* verifies the checksum.
Truncate ==
    /\ phase = "encoded"
    /\ enc.ok
    /\ \E n \in 0..1 : wire' = SubSeq(wire, 1, n)
    /\ phase' = "truncated"
    /\ verified' = verifyCrc8(wire')
    /\ UNCHANGED <<kind, input, enc, text, flipped, decoder, res, tampered, valid, bitVars>>

NextCrc ==
    \/ EncodeS(CrcAssessments)
    \/ EncodeD(Demographics)
    \/ FlipBit
    \/ Truncate

SpecCrc == Init /\ [][NextCrc]_vars

\* The characters of the base64url alphabet: A-Z a-z 0-9 - _
Base64urlChars == (0..61) \cup {ChMinus, ChUnder}

\* The last character of a code an encoder returned is replaced by another
\* character of the alphabet before the code reaches the decoder.
TamperLast ==
    /\ phase = "encoded"
    /\ enc.ok
    /\ \E c \in Base64urlChars \ {text.body[Len(text.body)]} :
          /\ text' = [text EXCEPT !.body[Len(text.body)] = c]
          /\ tampered' = <<c>>
    /\ phase' = "tampered"
    /\ UNCHANGED <<kind, input, enc, wire, verified, flipped, decoder, res, valid, bitVars>>

NextTamper ==
    \/ EncodeS(CrcAssessments)
    \/ EncodeD(Demographics)
    \/ TamperLast
    \/ DecodeS
    \/ DecodeD

SpecTamper == Init /\ [][NextTamper]_vars

\* The caller is handed the empty text or a value that is not a text.
HandValue ==
    /\ phase = "idle"
    /\ \E v \in ValueSamples :
          /\ phase' = "crafted"
          /\ kind' = "value"
          /\ text' = v
          /\ UNCHANGED <<input, enc, wire, verified, flipped, decoder, res, tampered, valid, bitVars>>

\* The caller asks the validity predicate about the text it has just decoded.
IsValidS ==
    /\ phase = "decoded"
    /\ decoder = "S"
    /\ phase' = "validated"
    /\ valid' = isValidSCode(text)
    /\ UNCHANGED <<kind, input, enc, text, wire, verified, flipped, decoder, res, tampered, bitVars>>

IsValidD ==
    /\ phase = "decoded"
    /\ decoder = "D"
    /\ phase' = "validated"
    /\ valid' = isValidDCode(text)
    /\ UNCHANGED <<kind, input, enc, text, wire, verified, flipped, decoder, res, tampered, bitVars>>

\* Both decoders and both predicates on codes, hand-built texts and values.
NextValid ==
    \/ EncodeS(CrcAssessments)
    \/ EncodeD(Demographics)
    \/ Craft
    \/ HandValue
    \/ DecodeS
    \/ DecodeD
    \/ IsValidS
    \/ IsValidD

SpecValid == Init /\ [][NextValid]_vars

\* The values and widths handed to pack.  A value stands for every number
\* with the same ToInt32: -1 for 4294967295 as well.
PackValues == {0, 5, 2047, 2147483647, -1}
PackWidths == {1, 3, 12, 31, 32}

\* The caller packs one more value.
PackValue ==
    /\ bitStage = "packing"
    /\ Len(packed) < MaxPacks
    /\ \E v \in PackValues, w \in PackWidths :
          /\ packed' = Append(packed, [value |-> v, bitCount |-> w])
          /\ packerBits' = pack(packerBits, v, w)
    /\ UNCHANGED <<codecVars, bitStage, bytes, unpacker, reads>>

\* The caller takes the bytes and builds a BitUnpacker on them.
GetBytes ==
    /\ bitStage = "packing"
    /\ bitStage' = "reading"
    /\ bytes' = getBytes(packerBits)
    /\ packerBits' = PaddedBits(packerBits)
    /\ unpacker' = BitUnpacker(bytes')
    /\ UNCHANGED <<codecVars, packed, reads>>

\* The caller reads the next value back with the width it was packed with.
UnpackNext ==
    /\ bitStage = "reading"
    /\ Len(reads) < Len(packed)
    /\ LET w == packed[Len(reads) + 1].bitCount
           r == unpack(unpacker, w)
       IN  /\ reads' = Append(reads, [value |-> r.value, bitCount |-> w])
           /\ unpacker' = r.next
    /\ UNCHANGED <<codecVars, bitStage, packed, packerBits, bytes>>

\* The caller goes on reading after the last packed value.
UnpackMore ==
    /\ bitStage = "reading"
    /\ Len(reads) >= Len(packed)
    /\ Len(reads) < Len(packed) + MaxExtraReads
    /\ \E w \in PackWidths :
          LET r == unpack(unpacker, w)
          IN  /\ reads' = Append(reads, [value |-> r.value, bitCount |-> w])
              /\ unpacker' = r.next
    /\ UNCHANGED <<codecVars, bitStage, packed, packerBits, bytes>>

NextBits ==
    \/ PackValue
    \/ GetBytes
    \/ UnpackNext
    \/ UnpackMore

SpecBits == Init /\ [][NextBits]_vars

(***************************************************************************)
(* The claims.                                                             *)
(***************************************************************************)
DayOf(date) == date.t \div TicksPerDay

\* The date as day-truncated by the decoder.
DayStart(date) == DateAt(DayOf(date) * TicksPerDay)

\* The value of an exercise component is absent, exempt or at most max.
ValueWithin(comp, max) ==
    comp = <<>> \/ comp[1].exempt \/ comp[1].value[1] \in 0..max

BodyWithin(bodyComp, maxHeight, maxWaist) ==
    \/ bodyComp = <<>>
    \/ bodyComp[1].exempt
    \/ bodyComp[1].heightTenths[1] \in 0..maxHeight /\ bodyComp[1].waistTenths[1] \in 0..maxWaist

\* The record lies in the documented field ranges: a date from 2020-01-01 to
\* 32767 days later, cardio and core 0..2047, strength 0..127, height and
\* waist (in tenths) inside 11 and 10 bits.
InFieldRanges(a) ==
    /\ a.date.kind = "date"
    /\ DayOf(a.date) \in 18262..51029
    /\ ValueWithin(a.cardio, 2047)
    /\ ValueWithin(a.strength, 127)
    /\ ValueWithin(a.core, 2047)
    /\ BodyWithin(a.bodyComp, 2047, 1023)

SameComponent(out, in) ==
    /\ (out = <<>>) <=> (in = <<>>)
    /\ in # <<>> =>
         /\ out[1].exercise = in[1].exercise
         /\ out[1].exempt = in[1].exempt
         /\ (out[1].value = <<>>) <=> in[1].exempt
         /\ out[1].value = in[1].value

SameBodyComp(out, in) ==
    /\ (out = <<>>) <=> (in = <<>>)
    /\ in # <<>> =>
         /\ out[1].exempt = in[1].exempt
         /\ out[1].heightTenths = in[1].heightTenths
         /\ out[1].waistTenths = in[1].waistTenths

DecodedBy(k, d) == phase = "decoded" /\ kind = k /\ decoder = d

\* C1: S-code round trip.  Every assessment within the documented field
\* ranges is encoded, and decoding the code gives back the presence, exercise,
\* exempt flag and value of each component (the value null exactly when
\* exempt), the height and waist, and the date truncated to the day.
RoundTripS ==
    /\ phase # "idle" /\ kind = "S" /\ InFieldRanges(input) => enc.ok
    /\ DecodedBy("S", "S") /\ InFieldRanges(input) =>
         /\ res.ok
         /\ SameComponent(res.cardio, input.cardio)
         /\ SameComponent(res.strength, input.strength)
         /\ SameComponent(res.core, input.core)
         /\ SameBodyComp(res.bodyComp, input.bodyComp)
         /\ res.date = DayStart(input.date)

\* A record with a time of day, cardio, strength and height at the top of
\* their ranges and core exempt was encoded and decoded.
RoundTripSReached ==
    /\ DecodedBy("S", "S")
    /\ res.ok
    /\ input.date.t % TicksPerDay # 0
    /\ input.cardio # <<>> /\ input.cardio[1].value = <<2047>>
    /\ input.strength # <<>> /\ input.strength[1].value = <<127>>
    /\ input.core # <<>> /\ input.core[1].exempt
    /\ input.bodyComp # <<>> /\ input.bodyComp[1].heightTenths = <<2047>>

\* The day count of a date of birth from 1950-01-01 lies in [0, 65535].
DobInRange(dob) == dob.kind = "date" /\ DayOf(dob) + 7305 \in 0..65535

\* C2: D-code round trip.  Demographics with gender MALE or FEMALE and a date
\* of birth 0..65535 days after the epoch are encoded, and decoding the code
\* gives back the gender and the date of birth truncated to the day.
RoundTripD ==
    /\ phase # "idle" /\ kind = "D" /\ input.gender # <<>> /\ DobInRange(input.dob) => enc.ok
    /\ DecodedBy("D", "D") /\ input.gender # <<>> /\ DobInRange(input.dob) =>
         /\ res.ok
         /\ res.gender = input.gender[1]
         /\ res.dob = DayStart(input.dob)

\* The last day of the range, at a time of day, for a woman.
RoundTripDReached ==
    /\ DecodedBy("D", "D")
    /\ res.ok
    /\ input.gender = <<"F">>
    /\ DayOf(input.dob) + 7305 = 65535
    /\ input.dob.t % TicksPerDay # 0

\* The value decoded for a component whose input exceeds max is max.
ClampedTo(out, in, max) ==
    in # <<>> /\ ~in[1].exempt /\ in[1].value[1] > max => out # <<>> /\ out[1].value = <<max>>

\* C3: encode-time clamping.  A value above its field's maximum (cardio and
\* core 2047, strength 127, height 2047 tenths, waist 1023 tenths) is encoded
\* without error and decodes as the maximum.
ClampOnEncode ==
    /\ phase # "idle" /\ kind = "S" /\ input.date.kind = "date" => enc.ok
    /\ DecodedBy("S", "S") =>
         /\ res.ok
         /\ ClampedTo(res.cardio, input.cardio, 2047)
         /\ ClampedTo(res.strength, input.strength, 127)
         /\ ClampedTo(res.core, input.core, 2047)
         /\ input.bodyComp # <<>> /\ ~input.bodyComp[1].exempt =>
              /\ input.bodyComp[1].heightTenths[1] > 2047 =>
                   res.bodyComp[1].heightTenths = <<2047>>
              /\ input.bodyComp[1].waistTenths[1] > 1023 =>
                   res.bodyComp[1].waistTenths = <<1023>>

\* C4: CRC sensitivity.  The bytes an encoder checksummed verify; with any
\* one bit flipped, in a data byte or in the CRC byte, they do not; fewer than
\* 2 bytes never verify.
CrcSensitivity ==
    /\ phase = "encoded" /\ enc.ok =>
         verified /\ wire[Len(wire)] = crc8(SubSeq(wire, 1, Len(wire) - 1))
    /\ phase = "damaged" => ~verified
    /\ phase = "truncated" => ~verified

\* A bit of the CRC byte of an S-code was flipped.
CrcSensitivityReached ==
    /\ phase = "damaged"
    /\ kind = "S"
    /\ flipped[1] >= 8 * (Len(wire) - 1)
    /\ ~verified

\* A hand-built text that is base64url of a payload with a valid trailing CRC.
CraftSound(c) == c.spoil = "none" /\ c.crcOk /\ c.n >= 1

\* C5 as stated: with the right prefix, valid base64url and a valid CRC, a
\* schema version above 2 makes decodeSCode fail with the version error and
\* one above 1 makes decodeDCode fail with the version error.
VersionGuardAsStated ==
    /\ DecodedBy("craft", "S") /\ input.pre = "S2-" /\ CraftSound(input) /\ input.ver > 2 =>
         res = Thrown("version")
    /\ DecodedBy("craft", "D") /\ input.pre = "D1-" /\ CraftSound(input) /\ input.ver > 1 =>
         res = Thrown("version")

\* C5, amended: decodeSCode fails with the version error for every such
\* payload; decodeDCode returns no record, failing with the version error
\* when the data part is exactly 3 bytes and with the length error otherwise.
VersionGuard ==
    /\ DecodedBy("craft", "S") /\ input.pre = "S2-" /\ CraftSound(input) /\ input.ver > 2 =>
         res = Thrown("version")
    /\ DecodedBy("craft", "D") /\ input.pre = "D1-" /\ CraftSound(input) /\ input.ver > 1 =>
         res = Thrown(IF input.n = 3 THEN "version" ELSE "length")

\* A 3-byte D payload of schema version 15 with a valid CRC was refused.
VersionGuardReached ==
    /\ DecodedBy("craft", "D")
    /\ input.pre = "D1-" /\ CraftSound(input) /\ input.n = 3 /\ input.ver = 15
    /\ res = Thrown("version")

\* C6: decodeDCode checks prefix, base64url, CRC, length, version in this
\* order and reports the first check that fails.
DecodeOrderD ==
    DecodedBy("craft", "D") =>
        IF input.pre # "D1-" THEN res = Thrown("format")
        ELSE IF input.spoil # "none" THEN res = Thrown("base64")
        ELSE IF ~(input.crcOk /\ input.n >= 1) THEN res = Thrown("crc")
        ELSE IF input.n # 3 THEN res = Thrown("length")
        ELSE IF input.ver > 1 THEN res = Thrown("version")
        ELSE res.ok

\* A payload of the wrong length and of a future version: the length error.
DecodeOrderDReached ==
    /\ DecodedBy("craft", "D")
    /\ input.pre = "D1-" /\ CraftSound(input) /\ input.n = 2 /\ input.ver = 15
    /\ res = Thrown("length")

\* C7: encodeDCode fails with the missing-field error when dob or gender is
\* absent, with the range error when the date of birth gives no integer day
\* count in [0, 65535], and returns a code in every other case.
EncodeDValidation ==
    phase # "idle" /\ kind = "D" =>
        IF input.dob.kind = "absent" \/ input.gender = <<>> THEN enc = Thrown("missing")
        ELSE IF ~DobInRange(input.dob) THEN enc = Thrown("range")
        ELSE enc.ok

\* The bits of the data bytes of the code at hand.
WireBits == BytesToBits(SubSeq(wire, 1, Len(wire) - 1))

Bit(b) == IF b THEN 1 ELSE 0

\* C8 as stated: the data bytes of every S-code begin with schemaVersion(4),
\* chartVersion(4), dateDays(15, from 2020-01-01), diagnostic(1) and the
\* presence bits of cardio, strength, core and bodyComp: 28 bits.
HeaderLayoutAsStated ==
    phase = "encoded" /\ kind = "S" /\ enc.ok /\ input.date.kind = "date" =>
        /\ BitsValue(WireBits, 1, 4) = 2
        /\ BitsValue(WireBits, 5, 4) = 0
        /\ BitsValue(WireBits, 9, 15) = (DayOf(input.date) - 18262) % 32768
        /\ BitsValue(WireBits, 24, 1) = Bit(isDiagnosticPeriod(input.date))
        /\ BitsValue(WireBits, 25, 1) = Bit(input.cardio # <<>>)
        /\ BitsValue(WireBits, 26, 1) = Bit(input.strength # <<>>)
        /\ BitsValue(WireBits, 27, 1) = Bit(input.core # <<>>)
        /\ BitsValue(WireBits, 28, 1) = Bit(input.bodyComp # <<>>)

\* C8, amended: dateDays takes 16 bits and counts days from 1950-01-01 (the
\* low 16 bits of the count), so the header has 29 bits; decodeSCode reads
\* the header of any payload with the same widths and epoch.
HeaderLayout ==
    /\ phase = "encoded" /\ kind = "S" /\ enc.ok /\ input.date.kind = "date" =>
         /\ BitsValue(WireBits, 1, 4) = 2
         /\ BitsValue(WireBits, 5, 4) = 0
         /\ BitsValue(WireBits, 9, 16) = (DayOf(input.date) + 7305) % 65536
         /\ BitsValue(WireBits, 25, 1) = Bit(isDiagnosticPeriod(input.date))
         /\ BitsValue(WireBits, 26, 1) = Bit(input.cardio # <<>>)
         /\ BitsValue(WireBits, 27, 1) = Bit(input.strength # <<>>)
         /\ BitsValue(WireBits, 28, 1) = Bit(input.core # <<>>)
         /\ BitsValue(WireBits, 29, 1) = Bit(input.bodyComp # <<>>)
    /\ phase = "decoded" /\ decoder = "S" /\ res.ok =>
         /\ res.schemaVersion = BitsValue(WireBits, 1, 4)
         /\ res.chartVersion = BitsValue(WireBits, 5, 4)
         /\ res.date = DateAt((BitsValue(WireBits, 9, 16) - 7305) * TicksPerDay)
         /\ Bit(res.isDiagnostic) = BitsValue(WireBits, 25, 1)
         /\ Bit(res.cardio # <<>>) = BitsValue(WireBits, 26, 1)
         /\ Bit(res.strength # <<>>) = BitsValue(WireBits, 27, 1)
         /\ Bit(res.core # <<>>) = BitsValue(WireBits, 28, 1)
         /\ Bit(res.bodyComp # <<>>) = BitsValue(WireBits, 29, 1)

\* A code of a diagnostic-period date with core and bodyComp only was decoded.
HeaderLayoutReached ==
    /\ DecodedBy("S", "S")
    /\ res.ok
    /\ res.isDiagnostic
    /\ DayOf(input.date) = 20346
    /\ input.cardio = <<>> /\ input.strength = <<>>
    /\ input.core # <<>> /\ input.bodyComp # <<>>

\* C9 as stated: 4 to 11 data bytes and 1 CRC byte, at most 20 characters
\* with the prefix.
SizeBoundAsStated ==
    phase = "encoded" /\ kind = "S" /\ enc.ok =>
        /\ Len(wire) - 1 \in 4..11
        /\ 3 + Len(text.body) <= 20

\* C9, amended: 4 to 12 data bytes and 1 CRC byte, at most 21 characters
\* with the prefix.
SizeBound ==
    phase = "encoded" /\ kind = "S" /\ enc.ok =>
        /\ Len(wire) - 1 \in 4..12
        /\ 3 + Len(text.body) <= 21

\* All four components present and not exempt: 12 data bytes, 21 characters.
SizeBoundReached ==
    /\ phase = "encoded" /\ kind = "S" /\ enc.ok
    /\ input.cardio # <<>> /\ ~input.cardio[1].exempt
    /\ input.strength # <<>> /\ ~input.strength[1].exempt
    /\ input.core # <<>> /\ ~input.core[1].exempt
    /\ input.bodyComp # <<>> /\ ~input.bodyComp[1].exempt
    /\ Len(wire) = 13
    /\ 3 + Len(text.body) = 21

\* The hand-built text is a well-formed legacy code: prefix "S1-", base64url
\* of the text "{}" and its CRC.
LegacyCode(c) ==
    c.pre = "S1-" /\ CraftSound(c) /\ c.ver = 7 /\ c.low = 11 /\ c.fill = 125 /\ c.n = 2

BytesOf(t) == decodeBase64url(t.body).bytes

\* C11: a code from encodeSCode or encodeDCode whose last character was
\* replaced by any other character of the base64url alphabet is rejected by
\* the matching decoder with the checksum mismatch error.
TamperLastRejected ==
    phase = "decoded" /\ tampered # <<>> => res = Thrown("crc")

\* What the decoders do with such a code: the bits of the last character that
\* atob keeps all lie in the CRC byte, so a replacement that changes them is
\* rejected with the checksum error, and one that changes only the bits atob
\* discards is decoded to the record of the untouched code.
TamperLastOutcome ==
    phase = "decoded" /\ tampered # <<>> =>
        IF BytesOf(text) = wire
        THEN res = (IF decoder = "S" THEN decodeSCode(enc.text) ELSE decodeDCode(enc.text))
             /\ res.ok
        ELSE res = Thrown("crc")

\* C12: on every input (a valid code, a corrupted code, the empty text, a
\* missing value, a value that is not a text) isValidSCode and isValidDCode
\* return, without throwing, true exactly when the decoder returned a record
\* on the same input and false exactly when it failed.
ValidityPredicates ==
    phase = "validated" => valid = Returned(res.ok)

\* A value that is not a text made decodeSCode throw a TypeError, and
\* isValidSCode returned false.
ValidityPredicatesReached ==
    /\ phase = "validated"
    /\ decoder = "S"
    /\ kind = "value"
    /\ ~IsText(text)
    /\ text.truthy
    /\ res = Thrown("TypeError")
    /\ valid = Returned(FALSE)

\* r is the unsigned integer formed by the low w bits of v.
IsUnsignedLow(r, v, w) ==
    /\ r >= 0
    /\ w < 31 => r < Pow2(w)
    /\ \A k \in 0..(w - 1) : BitAt(r, k) = BitAt(v, k)

\* The bits pack appended, in order.
RECURSIVE PackedBits(_)
PackedBits(calls) ==
    IF calls = <<>> THEN <<>>
    ELSE PackedBits(SubSeq(calls, 1, Len(calls) - 1))
         \o [k \in 1..calls[Len(calls)].bitCount |->
                BitAt(calls[Len(calls)].value, calls[Len(calls)].bitCount - k)]

\* The bytes hold the packed bits, then zeros up to the byte boundary.
ZeroPadded ==
    LET all == BytesToBits(bytes)
        n == Len(PackedBits(packed))
    IN  /\ Len(bytes) = (n + 7) \div 8
        /\ SubSeq(all, 1, n) = PackedBits(packed)
        /\ \A k \in (n + 1)..Len(all) : all[k] = 0

\* C13: after pack(value_i, width_i) with widths in 1..32 and getBytes, the
\* unpack(width_i) calls return in order the unsigned integer formed by the
\* low width_i bits of value_i; the last byte is zero-padded; an unpack
\* beyond the end of the buffer returns zero bits.
BitAgreement ==
    bitStage = "reading" =>
        /\ ZeroPadded
        /\ \A i \in 1..Len(reads) :
              IF i <= Len(packed)
              THEN IsUnsignedLow(reads[i].value, packed[i].value, packed[i].bitCount)
              ELSE reads[i].value = 0

\* What the reader returns: the unsigned integer for every width below 32,
\* and for width 32 the int32 with the packed bits, negative when bit 31 of
\* the value is 1.
BitAgreementInt32 ==
    bitStage = "reading" =>
        /\ ZeroPadded
        /\ \A i \in 1..Len(reads) :
              IF i > Len(packed) THEN reads[i].value = 0
              ELSE IF packed[i].bitCount < 32
              THEN IsUnsignedLow(reads[i].value, packed[i].value, packed[i].bitCount)
              ELSE reads[i].value = packed[i].value

\* A sound "S2-" text of schema version at most 2 was handed to decodeSCode.
ShortSCode ==
    DecodedBy("craft", "S") /\ input.pre = "S2-" /\ CraftSound(input) /\ input.ver <= 2

\* A component whose fields all lie beyond the end of the payload.
ZeroComponent(exercise) == << [exercise |-> exercise, value |-> <<0>>, exempt |-> FALSE] >>

\* C14: decodeSCode has no length check: every "S2-" text with valid
\* base64url, at least one data byte, a valid CRC and a schema version of at
\* most 2 decodes to a record however short it is; the fields beyond the end
\* of the payload come back as zero (the date as the epoch, components whose
\* presence bit is missing as absent), and decodeSCode never fails with a
\* length error.
NoLengthCheckS ==
    /\ phase = "decoded" /\ decoder = "S" => res # Thrown("length")
    /\ ShortSCode =>
          /\ res.ok
          /\ res.schemaVersion = input.ver
          /\ res.chartVersion = input.low
    /\ ShortSCode /\ input.n = 1 => res.date = DateAt(S_EPOCH_DATE)
    /\ ShortSCode /\ input.n = 2 => res.date = S_daysToDate(256 * input.fill)
    /\ ShortSCode /\ input.n = 3 => res.date = S_daysToDate(257 * input.fill)
    /\ ShortSCode /\ input.n <= 3 =>
          /\ ~res.isDiagnostic
          /\ res.cardio = <<>> /\ res.strength = <<>> /\ res.core = <<>>
          /\ res.bodyComp = <<>>
    /\ ShortSCode /\ input.n = 4 /\ BitAt(input.fill, 6) = 1 =>
          /\ res.cardio = ZeroComponent(Lookup(CARDIO_EXERCISES_REV, input.fill % 8,
                                                "2mile_run"))
          /\ res.strength =
                (IF BitAt(input.fill, 5) = 1 THEN ZeroComponent("pushups") ELSE <<>>)
          /\ res.core =
                (IF BitAt(input.fill, 4) = 1 THEN ZeroComponent("situps") ELSE <<>>)
          /\ res.bodyComp =
                (IF BitAt(input.fill, 3) = 1
                 THEN << [heightTenths |-> <<0>>, waistTenths |-> <<0>>, exempt |-> FALSE] >>
                 ELSE <<>>)

\* A payload of one data byte was decoded to a record dated at the epoch.
NoLengthCheckSReached ==
    /\ ShortSCode
    /\ input.n = 1
    /\ res.ok
    /\ res.date = DateAt(S_EPOCH_DATE)
    /\ res.cardio = <<>>

\* A payload of four data bytes was decoded with components read past its end.
PastEndComponentsReached ==
    /\ ShortSCode
    /\ input.n = 4
    /\ res.ok
    /\ res.cardio = ZeroComponent("2mile_run")
    /\ res.bodyComp # <<>>

====
